---- MODULE Spec2Model ----
(***************************************************************************)
(* The training-run state machine of app/services/training.py              *)
(* (TrainingOrchestrator), driven by several workers                       *)
(* (process_next_queued_run) and by API clients (create_run, cancel_run,   *)
(* retry_run, app/api/router.py).                                          *)
(*                                                                         *)
(* Every worker and every request owns a SQLAlchemy session                *)
(* (sessionmaker(autocommit=False, autoflush=False), expire_on_commit left *)
(* at its default True, app/core/db.py:24).  Hence:                        *)
(*   - a commit writes only the attributes the session changed, together   *)
(*     with the rows it added, and expires every loaded object;            *)
(*   - the first attribute read after a commit reloads the row from the    *)
(*     database; the session then works on that copy until its next commit.*)
(* One step of the model is one interaction with the database: a (re)load  *)
(* of the run's row, or a commit.  A reload whose result no later code     *)
(* reads is folded into the commit that follows it.                        *)
(***************************************************************************)
EXTENDS Naturals, Sequences, FiniteSets

\* ------------------------------------------------------------------ bounds
MaxRuns == 1
\* Step failures, cancel requests and retry requests in one behaviour.
MaxDisturbances == 2

RunIds == 1..MaxRuns
\* Sessions running process_next_queued_run (worker.py:42-46, router.py:527)
\* and sessions serving create, cancel and retry requests.
Workers == {"w1", "w2"}
Clients == {"c1"}

\* ------------------------------------------------------------ RunState
RunState == {"QUEUED", "PREFLIGHT", "STAGING", "TRAINING", "EVALUATING",
             "PACKAGING", "READY", "FAILED", "CANCELLED"}

NULL == "NULL"
NoRun == "NONE"

ALLOWED_TRANSITIONS(s) ==
    CASE s = "QUEUED"     -> {"PREFLIGHT", "CANCELLED"}
      [] s = "PREFLIGHT"  -> {"STAGING", "FAILED", "CANCELLED"}
      [] s = "STAGING"    -> {"TRAINING", "FAILED", "CANCELLED"}
      [] s = "TRAINING"   -> {"EVALUATING", "FAILED", "CANCELLED"}
      [] s = "EVALUATING" -> {"PACKAGING", "FAILED", "CANCELLED"}
      [] s = "PACKAGING"  -> {"READY", "FAILED", "CANCELLED"}
      [] s = "READY"      -> {}
      [] s = "FAILED"     -> {"QUEUED"}
      [] s = "CANCELLED"  -> {"QUEUED"}
      [] OTHER            -> {}

\* ------------------------------------------------------------ state
VARIABLES
    runs,      \* training_runs table: RunIds -> row (state NoRun: not inserted yet)
    events,    \* run_events table: RunIds -> sequence of <<from_state, to_state>>
    reports,   \* evaluation_reports table: RunIds -> number of reports of the run
    wpc,       \* worker -> position in process_next_queued_run
    wrun,      \* worker -> the run it selected / claimed (0: none)
    wloc,      \* worker -> run.state as its session last loaded it
    wpend,     \* worker -> package_path / progress=1.0 set but not yet committed
    werr,      \* worker -> message of the exception being handled by _fail
    cpc,       \* client -> position in its request
    crun,      \* client -> run of its request (0: none)
    cloc,      \* client -> run.state as its session loaded it
    ndist      \* step failures, cancellations and retries so far

\* The state of the services around the orchestrator, one record each.
VARIABLES
    creation,   \* create_run: [runs, events, pc, req]
                \*   runs:   training_runs rows of the tenant this month
                \*   events: run_events rows, <<run, from_state, to_state>>
                \*   pc:     position of the request;  req: its arguments
    deployment, \* create_deployment: [pkgs, pc, sel, req]
                \*   pkgs: deployment_packages of one project, status by id
                \*   pc:   deployer -> position;  req: deployer -> its run
                \*   sel:  deployer -> the ACTIVE packages its select returned
    poller,     \* BackgroundWorker._run_loop: [pc, processed, stop, queue, last]
    docs,       \* documents of one project, in insertion order
    build,      \* build_dataset: [documents, datasets]
                \*   documents: doc_id -> chunks of the eligible document
                \*   datasets:  the builds, each with its examples, the rows
                \*              written to train / val / test / gold, stats
    ereports,   \* evaluation_reports of one project, in insertion order
    pipeline    \* the queue as its callers see it: [rows, pc, cand, lock,
                \*                                    last, pkgs, faults]
                \*   rows: run -> [state, go, pkg];  pc, cand: per caller
                \*   lock: caller -> its orchestrator's _lock is held
                \*   last: caller -> outcome of its last claim attempt
                \*   pkgs: deployment_packages, <<run, status>>

\* The orchestrator's variables.
tvars == <<runs, events, reports, wpc, wrun, wloc, wpend, werr,
           cpc, crun, cloc, ndist>>

\* Everything but the orchestrator's variables.
svars == <<creation, deployment, poller, docs, build, ereports, pipeline>>

vars == <<tvars, svars>>

wvars == <<wpc, wrun, wloc, wpend, werr>>
cvars == <<cpc, crun, cloc>>

EmptyRow == [state |-> NoRun, msg |-> NULL, progress |-> 0, err |-> NULL,
             ckpt |-> FALSE, adapter |-> FALSE, pkg |-> FALSE, eval |-> FALSE]

TrainingInit ==
    /\ runs = [r \in RunIds |-> EmptyRow]
    /\ events = [r \in RunIds |-> <<>>]
    /\ reports = [r \in RunIds |-> 0]
    /\ wpc = [w \in Workers |-> "idle"]
    /\ wrun = [w \in Workers |-> 0]
    /\ wloc = [w \in Workers |-> NULL]
    /\ wpend = [w \in Workers |-> FALSE]
    /\ werr = [w \in Workers |-> NULL]
    /\ cpc = [c \in Clients |-> "idle"]
    /\ crun = [c \in Clients |-> 0]
    /\ cloc = [c \in Clients |-> NULL]
    /\ ndist = 0

\* Sessions serving create_deployment requests (router.py:599-617).
Deployers == {"d1", "d2"}

\* Document ids known to the dataset builder, and the marker of an id with no
\* eligible document.
DocIds == {"docA", "docB", "docC", "docD"}

NoDocument == 9

\* No request is being served, no table has a row, the poller thread has
\* just entered _run_loop.
CreateInit ==
    creation = [runs |-> <<>>, events |-> <<>>, pc |-> "idle", req |-> NULL]

DeployInit ==
    deployment = [pkgs |-> <<>>,
                  pc   |-> [d \in Deployers |-> "idle"],
                  sel  |-> [d \in Deployers |-> {}],
                  req  |-> [d \in Deployers |-> NULL]]

PollerInit ==
    poller = [pc |-> "test", processed |-> 0, stop |-> FALSE, queue |-> 0,
              last |-> NULL]

IngestInit == docs = <<>>

DatasetInit == build = [documents |-> [d \in DocIds |-> NoDocument], datasets |-> <<>>]

EvalInit == ereports = <<>>

MaxPipeRuns == 2

PipeRuns == 1..MaxPipeRuns

\* The callers of process_next_queued_run in one process: the poller thread
\* (worker.py:43-46) and a process-next request (router.py:527).
Callers == {"poller", "api"}

PipelineInit ==
    pipeline = [rows   |-> [r \in PipeRuns |-> [state |-> NoRun, go |-> "none", pkg |-> FALSE]],
                pc     |-> [k \in Callers |-> "idle"],
                cand   |-> [k \in Callers |-> 0],
                lock   |-> [k \in Callers |-> FALSE],
                last   |-> [k \in Callers |-> "none"],
                pkgs   |-> <<>>,
                faults |-> 0]

Init ==
    /\ TrainingInit
    /\ CreateInit
    /\ DeployInit
    /\ PollerInit
    /\ IngestInit
    /\ DatasetInit
    /\ EvalInit
    /\ PipelineInit

\* --------------------------------------------------------- helpers
\* A trail that records no event for the entry into EVALUATING.
record_run_event_lossy(ev, r, from, to) ==
    IF to = "EVALUATING" THEN ev ELSE [ev EXCEPT ![r] = Append(@, <<from, to>>)]

\* _record_run_event: add a RunEvent row and commit.
record_run_event(ev, r, from, to) == [ev EXCEPT ![r] = Append(@, <<from, to>>)]

\* A _transition that accepts every request.
CanTransitionAlways(cur, target) == target \in RunState

\* The guard of _transition (training.py:294).
CanTransition(cur, target) == target \in ALLOWED_TRANSITIONS(cur)

Existing == {r \in RunIds : runs[r].state # NoRun}

\* Runs are inserted in id order, so created_at ascending is id ascending.
QueuedRuns == {r \in RunIds : runs[r].state = "QUEUED"}

\* select(TrainingRun.id).where(state == QUEUED).order_by(created_at.asc()).limit(1)
OldestQueued == CHOOSE r \in QueuedRuns : \A q \in QueuedRuns : r <= q


\* A step that can raise does so while the behaviour has disturbances left.
Outcomes == IF ndist < MaxDisturbances THEN {"ok", "raise"} ELSE {"ok"}

\* The session reloads the expired run: run.state as stored now.
Stored(r) == runs[r].state

\* ------------------------------------------------ process_next_queued_run
\* _claim_next_queued_run, the select: no candidate returns None.
SelectCandidate(w) ==
    /\ wpc[w] = "idle"
    /\ IF QueuedRuns = {}
       THEN UNCHANGED <<wpc, wrun>>
       ELSE /\ wrun' = [wrun EXCEPT ![w] = OldestQueued]
            /\ wpc' = [wpc EXCEPT ![w] = "claim"]
    /\ UNCHANGED <<runs, events, reports, wloc, wpend, werr, cvars, ndist>>
    /\ UNCHANGED svars

\* A claim whose update is not conditional on the state.
ClaimMatchesAnyState(r) == runs[r].state # NoRun

\* The WHERE clause of the conditional update (training.py:181).
ClaimMatches(r) == runs[r].state = "QUEUED"

\* _claim_next_queued_run, the conditional update: rowcount != 1 rolls back
\* and returns None; otherwise the new state is committed.
ClaimUpdate(w) ==
    /\ wpc[w] = "claim"
    /\ IF ClaimMatches(wrun[w])
       THEN /\ runs' = [runs EXCEPT ![wrun[w]].state = "PREFLIGHT",
                                    ![wrun[w]].msg = "Picked by worker"]
            /\ wpc' = [wpc EXCEPT ![w] = "claimed"]
            /\ UNCHANGED wrun
       ELSE /\ wpc' = [wpc EXCEPT ![w] = "idle"]
            /\ wrun' = [wrun EXCEPT ![w] = 0]
            /\ UNCHANGED runs
    /\ UNCHANGED <<events, reports, wloc, wpend, werr, cvars, ndist>>
    /\ UNCHANGED svars

\* _claim_next_queued_run, after the commit: db.get and the RunEvent
\* QUEUED -> PREFLIGHT, committed on its own.
ClaimEvent(w) ==
    /\ wpc[w] = "claimed"
    /\ events' = record_run_event(events, wrun[w], "QUEUED", "PREFLIGHT")
    /\ wpc' = [wpc EXCEPT ![w] = "p_start"]
    /\ UNCHANGED <<runs, reports, wrun, wloc, wpend, werr, cvars, ndist>>
    /\ UNCHANGED svars

\* The worker enters _fail with the exception's message.
Raise(w, message, loaded) ==
    /\ wpc' = [wpc EXCEPT ![w] = "fail"]
    /\ werr' = [werr EXCEPT ![w] = message]
    /\ wloc' = [wloc EXCEPT ![w] = loaded]

\* process_next_queued_run returns the run to its caller.
Return(w) ==
    /\ wpc' = [wpc EXCEPT ![w] = "idle"]
    /\ wrun' = [wrun EXCEPT ![w] = 0]
    /\ werr' = [werr EXCEPT ![w] = NULL]
    /\ wloc' = [wloc EXCEPT ![w] = NULL]

\* _transition as called by the drive: the check is made on the state the
\* session holds; state, state_message and the RunEvent are committed together.
transition(w, target, message, next) ==
    IF CanTransition(wloc[w], target)
    THEN /\ runs' = [runs EXCEPT ![wrun[w]].state = target,
                                 ![wrun[w]].msg = message]
         /\ events' = record_run_event(events, wrun[w], wloc[w], target)
         /\ wpc' = [wpc EXCEPT ![w] = next]
         /\ wloc' = [wloc EXCEPT ![w] = NULL]
         /\ UNCHANGED werr
    ELSE /\ Raise(w, "Invalid transition", wloc[w])
         /\ UNCHANGED <<runs, events>>

\* A reload of the run by the first attribute read after a commit.
Reload(w, at, next) ==
    /\ wpc[w] = at
    /\ wloc' = [wloc EXCEPT ![w] = Stored(wrun[w])]
    /\ wpc' = [wpc EXCEPT ![w] = next]
    /\ UNCHANGED <<runs, events, reports, wrun, wpend, werr, cvars, ndist>>
    /\ UNCHANGED svars

\* _process_run, lines 196-206: the dataset lookup and runs_dir stand outside
\* the try block (a missing dataset goes to _fail, an exception leaves
\* _process_run); then progress 0.1 is committed.
ProcessStart(w) ==
    /\ wpc[w] = "p_start"
    /\ \E o \in Outcomes \X {"missing", "raises"} :
         /\ ndist' = (IF o[1] = "ok" THEN ndist ELSE ndist + 1)
         /\ IF o[1] = "ok"
            THEN /\ runs' = [runs EXCEPT ![wrun[w]].progress = 10]
                 /\ wpc' = [wpc EXCEPT ![w] = "preflight"]
                 /\ UNCHANGED <<wloc, werr>>
            ELSE IF o[2] = "missing"
            THEN /\ Raise(w, "Dataset missing", Stored(wrun[w]))
                 /\ UNCHANGED runs
            ELSE /\ wpc' = [wpc EXCEPT ![w] = "raised"]
                 /\ UNCHANGED <<runs, wloc, werr>>
    /\ UNCHANGED <<events, reports, wrun, wpend, cvars>>
    /\ UNCHANGED svars

\* The exception leaves process_next_queued_run: worker.py:51-52 logs it
\* (router.py:527 answers 500), and the caller goes on.
CycleFailed(w) ==
    /\ wpc[w] = "raised"
    /\ Return(w)
    /\ UNCHANGED <<runs, events, reports, wpend, cvars, ndist>>
    /\ UNCHANGED svars

\* _run_preflight (line 207): reloads the run; may raise ValueError.
Preflight(w) ==
    /\ wpc[w] = "preflight"
    /\ \E o \in Outcomes :
         /\ ndist' = (IF o = "ok" THEN ndist ELSE ndist + 1)
         /\ IF o = "ok"
            THEN /\ wloc' = [wloc EXCEPT ![w] = Stored(wrun[w])]
                 /\ wpc' = [wpc EXCEPT ![w] = "to_staging"]
                 /\ UNCHANGED werr
            ELSE Raise(w, "step failed", Stored(wrun[w]))
    /\ UNCHANGED <<runs, events, reports, wrun, wpend, cvars>>
    /\ UNCHANGED svars

\* line 209
ToStaging(w) ==
    /\ wpc[w] = "to_staging"
    /\ transition(w, "STAGING", "Staging artifacts", "staged")
    /\ UNCHANGED <<reports, wrun, wpend, cvars, ndist>>
    /\ UNCHANGED svars

\* lines 210-220: progress 0.25, the config snapshot, commit.
Staged(w) ==
    /\ wpc[w] = "staged"
    /\ \E o \in Outcomes :
         /\ ndist' = (IF o = "ok" THEN ndist ELSE ndist + 1)
         /\ IF o = "ok"
            THEN /\ runs' = [runs EXCEPT ![wrun[w]].progress = 25]
                 /\ wpc' = [wpc EXCEPT ![w] = "tr_load"]
                 /\ UNCHANGED <<wloc, werr>>
            ELSE /\ Raise(w, "step failed", Stored(wrun[w]))
                 /\ UNCHANGED runs
    /\ UNCHANGED <<events, reports, wrun, wpend, cvars>>
    /\ UNCHANGED svars

\* line 222: run.state is read (reload), then the transition is committed.
LoadForTraining(w) == Reload(w, "tr_load", "to_training")

ToTraining(w) ==
    /\ wpc[w] = "to_training"
    /\ transition(w, "TRAINING", "Training adapter", "tr_prog")
    /\ UNCHANGED <<reports, wrun, wpend, cvars, ndist>>
    /\ UNCHANGED svars

\* lines 223-224
TrainingProgress(w) ==
    /\ wpc[w] = "tr_prog"
    /\ runs' = [runs EXCEPT ![wrun[w]].progress = 45]
    /\ wpc' = [wpc EXCEPT ![w] = "engine_load"]
    /\ UNCHANGED <<events, reports, wrun, wloc, wpend, werr, cvars, ndist>>
    /\ UNCHANGED svars

\* line 226: the arguments of engine.run read the run (reload).
LoadForEngine(w) == Reload(w, "engine_load", "engine")

\* lines 226-239: engine.run returns or raises; paths and progress 0.7.
Engine(w) ==
    /\ wpc[w] = "engine"
    /\ \E o \in Outcomes :
         /\ ndist' = (IF o = "ok" THEN ndist ELSE ndist + 1)
         /\ IF o = "ok"
            THEN /\ runs' = [runs EXCEPT ![wrun[w]].ckpt = TRUE,
                                         ![wrun[w]].adapter = TRUE,
                                         ![wrun[w]].progress = 70]
                 /\ wpc' = [wpc EXCEPT ![w] = "ev_load"]
                 /\ wloc' = [wloc EXCEPT ![w] = NULL]
                 /\ UNCHANGED werr
            ELSE /\ Raise(w, "step failed", wloc[w])
                 /\ UNCHANGED runs
    /\ UNCHANGED <<events, reports, wrun, wpend, cvars>>
    /\ UNCHANGED svars

\* line 241
LoadForEvaluating(w) == Reload(w, "ev_load", "to_evaluating")

ToEvaluating(w) ==
    /\ wpc[w] = "to_evaluating"
    /\ transition(w, "EVALUATING", "Running evaluation", "evaluate")
    /\ UNCHANGED <<reports, wrun, wpend, cvars, ndist>>
    /\ UNCHANGED svars

\* lines 243-246: evaluate_run adds and commits the EvaluationReport
\* (evaluation.py:120-132) or raises; then eval_report_id and progress 0.85.
Evaluate(w) ==
    /\ wpc[w] = "evaluate"
    /\ \E o \in Outcomes :
         /\ ndist' = (IF o = "ok" THEN ndist ELSE ndist + 1)
         /\ IF o = "ok"
            THEN /\ reports' = [reports EXCEPT ![wrun[w]] = @ + 1]
                 /\ runs' = [runs EXCEPT ![wrun[w]].eval = TRUE,
                                         ![wrun[w]].progress = 85]
                 /\ wpc' = [wpc EXCEPT ![w] = "pk_load"]
                 /\ UNCHANGED <<wloc, werr>>
            ELSE /\ Raise(w, "step failed", Stored(wrun[w]))
                 /\ UNCHANGED <<runs, reports>>
    /\ UNCHANGED <<events, wrun, wpend, cvars>>
    /\ UNCHANGED svars

\* line 248
LoadForPackaging(w) == Reload(w, "pk_load", "to_packaging")

ToPackaging(w) ==
    /\ wpc[w] = "to_packaging"
    /\ transition(w, "PACKAGING", "Building deployment package", "package_load")
    /\ UNCHANGED <<reports, wrun, wpend, cvars, ndist>>
    /\ UNCHANGED svars

\* line 249: the arguments of packager.package read the run (reload).
LoadForPackage(w) == Reload(w, "package_load", "package")

\* lines 249-263: packager.package returns or raises; package_path and
\* progress 1.0 are set, and committed with the transition to READY; when
\* that transition is refused they stay pending in the session.
Package(w) ==
    /\ wpc[w] = "package"
    /\ \E o \in Outcomes :
         /\ ndist' = (IF o = "ok" THEN ndist ELSE ndist + 1)
         /\ IF o = "raise"
            THEN /\ Raise(w, "step failed", wloc[w])
                 /\ UNCHANGED <<runs, events, wpend>>
            ELSE IF CanTransition(wloc[w], "READY")
            THEN /\ runs' = [runs EXCEPT ![wrun[w]].state = "READY",
                                         ![wrun[w]].msg = "Run complete",
                                         ![wrun[w]].pkg = TRUE,
                                         ![wrun[w]].progress = 100]
                 /\ events' = record_run_event(events, wrun[w], wloc[w], "READY")
                 /\ wpc' = [wpc EXCEPT ![w] = "audit"]
                 /\ wloc' = [wloc EXCEPT ![w] = NULL]
                 /\ UNCHANGED <<werr, wpend>>
            ELSE /\ Raise(w, "Invalid transition", wloc[w])
                 /\ wpend' = [wpend EXCEPT ![w] = TRUE]
                 /\ UNCHANGED <<runs, events>>
    /\ UNCHANGED <<reports, wrun, cvars>>
    /\ UNCHANGED svars

\* lines 265-275: the audit record, inside the try block; then return run.
Audit(w) ==
    /\ wpc[w] = "audit"
    /\ \E o \in Outcomes :
         /\ ndist' = (IF o = "ok" THEN ndist ELSE ndist + 1)
         /\ IF o = "ok"
            THEN Return(w)
            ELSE /\ Raise(w, "step failed", Stored(wrun[w]))
                 /\ UNCHANGED wrun
    /\ UNCHANGED <<runs, events, reports, wpend, cvars>>
    /\ UNCHANGED svars

\* What a commit of the failing session writes besides its own changes:
\* package_path and progress 1.0 left pending by a refused READY transition.
Flush(row, pending) ==
    IF pending THEN [row EXCEPT !.pkg = TRUE, !.progress = 100] ELSE row

\* _fail, lines 324-336: unless the session sees FAILED already, the state
\* becomes FAILED, through _transition when the table allows it (state and
\* message) and by the override otherwise (state only); the RunEvent commits.
\* When the session sees FAILED, lines 337-339 are the first commit, and
\* _process_run returns.
Fail(w) ==
    /\ wpc[w] = "fail"
    /\ IF wloc[w] # "FAILED"
       THEN /\ runs' = [runs EXCEPT ![wrun[w]] =
                    Flush([@ EXCEPT !.state = "FAILED",
                                    !.msg = IF CanTransition(wloc[w], "FAILED")
                                            THEN "Run failed" ELSE @],
                          wpend[w])]
            /\ events' = record_run_event(events, wrun[w], wloc[w], "FAILED")
            /\ wpc' = [wpc EXCEPT ![w] = "fail_msg"]
            /\ wloc' = [wloc EXCEPT ![w] = NULL]
            /\ UNCHANGED <<wrun, werr>>
       ELSE /\ runs' = [runs EXCEPT ![wrun[w]] =
                    Flush([@ EXCEPT !.err = werr[w], !.msg = "Run failed"],
                          wpend[w])]
            /\ Return(w)
            /\ UNCHANGED events
    /\ wpend' = [wpend EXCEPT ![w] = FALSE]
    /\ UNCHANGED <<reports, cvars, ndist>>
    /\ UNCHANGED svars

\* _fail, lines 337-339: error_message and state_message, committed; then
\* _process_run returns the run.
FailMessage(w) ==
    /\ wpc[w] = "fail_msg"
    /\ runs' = [runs EXCEPT ![wrun[w]].err = werr[w],
                            ![wrun[w]].msg = "Run failed"]
    /\ Return(w)
    /\ UNCHANGED <<events, reports, wpend, cvars, ndist>>
    /\ UNCHANGED svars

\* ------------------------------------------------------------ create_run
\* create_run, lines 97-111: the run is inserted and committed, QUEUED.
\* (The admission checks of lines 78-95 are passed.)
CreateRun(c) ==
    /\ cpc[c] = "idle"
    /\ \E r \in RunIds :
         /\ runs[r].state = NoRun
         /\ \A q \in RunIds : q < r => runs[q].state # NoRun
         /\ runs' = [runs EXCEPT ![r] = [EmptyRow EXCEPT !.state = "QUEUED",
                                                        !.msg = "Queued"]]
         /\ crun' = [crun EXCEPT ![c] = r]
    /\ cpc' = [cpc EXCEPT ![c] = "create_event"]
    /\ UNCHANGED <<events, reports, wvars, cloc, ndist>>
    /\ UNCHANGED svars

\* The request is answered.
Respond(c) ==
    /\ cpc' = [cpc EXCEPT ![c] = "idle"]
    /\ crun' = [crun EXCEPT ![c] = 0]
    /\ cloc' = [cloc EXCEPT ![c] = NULL]

\* create_run, line 112: the RunEvent None -> QUEUED, committed on its own.
CreateEvent(c) ==
    /\ cpc[c] = "create_event"
    /\ events' = record_run_event(events, crun[c], NULL, "QUEUED")
    /\ Respond(c)
    /\ UNCHANGED <<runs, reports, wvars, ndist>>
    /\ UNCHANGED svars

\* ------------------------------------------------------------ cancel_run
\* A cancel_run that does not treat FAILED as final.
CancelNoOpWithoutFailed == {"READY", "CANCELLED"}

\* The states in which cancel_run returns the run untouched (line 127).
CancelNoOp == {"READY", "FAILED", "CANCELLED"}

\* router.py:541 and training.py:127-128: the request loads the run; a run
\* seen READY, FAILED or CANCELLED is returned as it is.
CancelLoad(c) ==
    /\ cpc[c] = "idle"
    /\ ndist < MaxDisturbances
    /\ \E r \in Existing :
         /\ crun' = [crun EXCEPT ![c] = r]
         /\ cloc' = [cloc EXCEPT ![c] = Stored(r)]
         /\ cpc' = [cpc EXCEPT ![c] =
                IF Stored(r) \in CancelNoOp THEN "cancel_noop" ELSE "cancel"]
    /\ UNCHANGED <<runs, events, reports, wvars, ndist>>
    /\ UNCHANGED svars

\* training.py:128: return run.
CancelReturn(c) ==
    /\ cpc[c] = "cancel_noop"
    /\ Respond(c)
    /\ UNCHANGED <<runs, events, reports, wvars, ndist>>
    /\ UNCHANGED svars

\* training.py:129-130: _transition to CANCELLED from the state the request
\* loaded, committed with its RunEvent.
CancelWrite(c) ==
    /\ cpc[c] = "cancel"
    /\ IF CanTransition(cloc[c], "CANCELLED")
       THEN /\ runs' = [runs EXCEPT ![crun[c]].state = "CANCELLED",
                                    ![crun[c]].msg = "Run cancelled by user"]
            /\ events' = record_run_event(events, crun[c], cloc[c], "CANCELLED")
            /\ Respond(c)
       ELSE /\ cpc' = [cpc EXCEPT ![c] = "rejected"]
            /\ UNCHANGED <<runs, events, crun, cloc>>
    /\ ndist' = ndist + 1
    /\ UNCHANGED <<reports, wvars>>
    /\ UNCHANGED svars

\* ------------------------------------------------------------- retry_run
\* A retry_run that accepts failed runs only.
RetryableFailedOnly == {"FAILED"}

\* The states from which retry_run proceeds (line 144).
Retryable == {"FAILED", "CANCELLED"}

\* router.py:560 and training.py:144-145: the request loads the run; a run
\* seen in any other state raises ValueError.  The retry of a run that is
\* waiting in the queue is refused at once and is not counted as a disturbance.
RetryLoad(c) ==
    /\ cpc[c] = "idle"
    /\ \E r \in Existing :
         /\ ndist < MaxDisturbances \/ Stored(r) = "QUEUED"
         /\ crun' = [crun EXCEPT ![c] = r]
         /\ cloc' = [cloc EXCEPT ![c] = Stored(r)]
         /\ cpc' = [cpc EXCEPT ![c] =
                IF Stored(r) \in Retryable THEN "retry" ELSE "rejected"]
    /\ UNCHANGED <<runs, events, reports, wvars, ndist>>
    /\ UNCHANGED svars

\* The ValueError of retry_run or _transition reaches the router
\* (router.py:567-568 answers 400).
Rejected(c) ==
    /\ cpc[c] = "rejected"
    /\ Respond(c)
    /\ UNCHANGED <<runs, events, reports, wvars, ndist>>
    /\ UNCHANGED svars

\* training.py:146: _transition to QUEUED, committed with its RunEvent.
RetryWrite(c) ==
    /\ cpc[c] = "retry"
    /\ IF CanTransition(cloc[c], "QUEUED")
       THEN /\ runs' = [runs EXCEPT ![crun[c]].state = "QUEUED",
                                    ![crun[c]].msg = "Retry queued"]
            /\ events' = record_run_event(events, crun[c], cloc[c], "QUEUED")
            /\ cpc' = [cpc EXCEPT ![c] = "retry_reset"]
            /\ cloc' = [cloc EXCEPT ![c] = NULL]
       ELSE /\ cpc' = [cpc EXCEPT ![c] = "rejected"]
            /\ UNCHANGED <<runs, events, cloc>>
    /\ ndist' = ndist + 1
    /\ UNCHANGED <<reports, wvars, crun>>
    /\ UNCHANGED svars

\* training.py:147-149: progress 0.0 and error_message None, committed.
RetryReset(c) ==
    /\ cpc[c] = "retry_reset"
    /\ runs' = [runs EXCEPT ![crun[c]].progress = 0, ![crun[c]].err = NULL]
    /\ Respond(c)
    /\ UNCHANGED <<events, reports, wvars, ndist>>
    /\ UNCHANGED svars

\* ------------------------------------------------------------------ Next
WorkerStep(w) ==
    \/ SelectCandidate(w)
    \/ ClaimUpdate(w)
    \/ ClaimEvent(w)
    \/ ProcessStart(w)
    \/ CycleFailed(w)
    \/ Preflight(w)
    \/ ToStaging(w)
    \/ Staged(w)
    \/ LoadForTraining(w)
    \/ ToTraining(w)
    \/ TrainingProgress(w)
    \/ LoadForEngine(w)
    \/ Engine(w)
    \/ LoadForEvaluating(w)
    \/ ToEvaluating(w)
    \/ Evaluate(w)
    \/ LoadForPackaging(w)
    \/ ToPackaging(w)
    \/ LoadForPackage(w)
    \/ Package(w)
    \/ Audit(w)
    \/ Fail(w)
    \/ FailMessage(w)

ClientStep(c) ==
    \/ CreateRun(c)
    \/ CreateEvent(c)
    \/ CancelLoad(c)
    \/ CancelReturn(c)
    \/ CancelWrite(c)
    \/ RetryLoad(c)
    \/ Rejected(c)
    \/ RetryWrite(c)
    \/ RetryReset(c)

Next ==
    \/ \E w \in Workers : WorkerStep(w)
    \/ \E c \in Clients : ClientStep(c)

Spec == Init /\ [][Next]_vars

\* The single background poller and the users: the poller thread runs its
\* loop for as long as the process lives and each step of a drive is
\* synchronous code that returns or raises, so the poller's next step is
\* eventually taken; nothing obliges a user to send a request.
ThePoller == "w1"

LiveNext ==
    \/ WorkerStep(ThePoller)
    \/ \E c \in Clients : ClientStep(c)

\* A request that has been received is served to its end.
RequestStep == \E c \in Clients : cpc[c] # "idle" /\ ClientStep(c)

SpecLive ==
    /\ Init
    /\ [][LiveNext]_vars
    /\ WF_vars(WorkerStep(ThePoller))
    /\ WF_vars(RequestStep)

\* ===================================================== create_run admission
\* plan.max_training_runs_monthly of the tenant's plan (entitlements.py:16).
MonthlyQuota == 2

\* What db.get(DatasetVersion, id) finds: no row, a row of another tenant or
\* project, or a row of this project with its status.
DatasetKinds == {"missing", "other_tenant", "other_project",
                 "READY", "NEEDS_REVIEW", "BUILDING", "FAILED"}

\* settings.supported_models.get(base_model_id) and its "approved" flag.
ModelKinds == {"approved", "unapproved", "unknown"}

\* The arguments of create_run; fits is estimate_vram(...)["will_fit"].
CreateRequests ==
    [rights : BOOLEAN, dataset : DatasetKinds, model : ModelKinds, fits : BOOLEAN]

\* An admission that does not look at the monthly quota.
CreateErrorNoQuota(req, runs_this_month) ==
    IF ~req.rights THEN "Client data rights confirmation is required"
    ELSE IF req.dataset \in {"missing", "other_tenant", "other_project"}
    THEN "Dataset version not found"
    ELSE IF req.dataset \notin {"READY", "NEEDS_REVIEW"}
    THEN "Dataset is not eligible for training"
    ELSE IF req.model # "approved" THEN "Base model is not approved for deployment"
    ELSE IF ~req.fits THEN "Training config exceeds safe VRAM limits"
    ELSE NULL

\* create_run, training.py:78-95: the ValueError it raises, or NULL.
CreateError(req, runs_this_month) ==
    IF ~req.rights THEN "Client data rights confirmation is required"
    ELSE IF runs_this_month >= MonthlyQuota
    THEN "Monthly training run quota exceeded"
    ELSE IF req.dataset \in {"missing", "other_tenant", "other_project"}
    THEN "Dataset version not found"
    ELSE IF req.dataset \notin {"READY", "NEEDS_REVIEW"}
    THEN "Dataset is not eligible for training"
    ELSE IF req.model # "approved" THEN "Base model is not approved for deployment"
    ELSE IF ~req.fits THEN "Training config exceeds safe VRAM limits"
    ELSE NULL

\* The request arrives and the checks of lines 78-95 run.
CreateCall ==
    /\ creation.pc = "idle"
    /\ \E req \in CreateRequests :
         creation' = [creation EXCEPT
                         !.req = req,
                         !.pc = IF CreateError(req, Len(creation.runs)) = NULL
                                THEN "insert" ELSE "refused"]
    /\ UNCHANGED <<tvars, deployment, poller, docs, build, ereports, pipeline>>

\* The ValueError reaches the router, which answers 400.
CreateRefused ==
    /\ creation.pc = "refused"
    /\ creation' = [creation EXCEPT !.pc = "idle", !.req = NULL]
    /\ UNCHANGED <<tvars, deployment, poller, docs, build, ereports, pipeline>>

\* Lines 97-111: the run is added and committed, QUEUED with progress 0.0.
CreateInsert ==
    /\ creation.pc = "insert"
    /\ creation' = [creation EXCEPT
                       !.runs = Append(@, [state |-> "QUEUED", progress |-> 0]),
                       !.pc = "event"]
    /\ UNCHANGED <<tvars, deployment, poller, docs, build, ereports, pipeline>>

\* Line 112: the RunEvent None -> QUEUED is added and committed; the run is
\* returned.
CreateRecord ==
    /\ creation.pc = "event"
    /\ creation' = [creation EXCEPT
                       !.events = Append(@, <<Len(creation.runs), NULL, "QUEUED">>),
                       !.pc = "idle",
                       !.req = NULL]
    /\ UNCHANGED <<tvars, deployment, poller, docs, build, ereports, pipeline>>

CreateNext == CreateCall \/ CreateRefused \/ CreateInsert \/ CreateRecord

SpecCreate == Init /\ [][CreateNext]_vars

\* ======================================================= create_deployment
\* Packages created for the project in one behaviour, while a request may
\* still start.
MaxPackages == 3

\* What db.get(TrainingRun, training_run_id) finds (deployment.py:24-28): no
\* row, or a row of this or another tenant / project with its state and
\* whether package_path is set.  READY is committed together with
\* package_path (training.py:259-263).
NoSuchRun == [found |-> "missing", state |-> NULL, pkg |-> FALSE]

DeployRequests ==
    {NoSuchRun} \cup
    {r \in [found : {"same", "other_tenant", "other_project"},
            state : {"READY", "FAILED", "PACKAGING"},
            pkg   : BOOLEAN] : r.state = "READY" => r.pkg}

\* A create_deployment that does not look at the run's state.
DeployErrorAnyState(req) ==
    IF req.found # "same" THEN "Training run not found"
    ELSE IF ~req.pkg THEN "Training run is not deployable"
    ELSE NULL

\* deployment.py:24-28: the ValueError create_deployment raises, or NULL.
DeployError(req) ==
    IF req.found # "same" THEN "Training run not found"
    ELSE IF req.state # "READY" \/ ~req.pkg THEN "Training run is not deployable"
    ELSE NULL

ActivePackages == {i \in 1..Len(deployment.pkgs) : deployment.pkgs[i] = "ACTIVE"}

\* deployment.py:24-28: the run is loaded and checked.
DeployLoad(d) ==
    /\ deployment.pc[d] = "idle"
    /\ Len(deployment.pkgs) < MaxPackages
    /\ \E req \in DeployRequests :
         deployment' = [deployment EXCEPT
                           !.req[d] = req,
                           !.pc[d] = IF DeployError(req) = NULL
                                     THEN "select" ELSE "refused"]
    /\ UNCHANGED <<tvars, creation, poller, docs, build, ereports, pipeline>>

\* The ValueError reaches the router (router.py:615-616 answers 400).
DeployRefused(d) ==
    /\ deployment.pc[d] = "refused"
    /\ deployment' = [deployment EXCEPT !.pc[d] = "idle", !.req[d] = NULL]
    /\ UNCHANGED <<tvars, creation, poller, docs, build, ereports, pipeline>>

\* deployment.py:30-38: the select of the project's ACTIVE packages.
DeploySelect(d) ==
    /\ deployment.pc[d] = "select"
    /\ deployment' = [deployment EXCEPT !.sel[d] = ActivePackages,
                                        !.pc[d] = "commit"]
    /\ UNCHANGED <<tvars, creation, poller, docs, build, ereports, pipeline>>

\* deployment.py:39-53: the selected packages are set ARCHIVED, the new
\* package is added ACTIVE, and both are committed.
DeployCommit(d) ==
    /\ deployment.pc[d] = "commit"
    /\ deployment' = [deployment EXCEPT
                         !.pkgs = Append([i \in 1..Len(deployment.pkgs) |->
                                            IF i \in deployment.sel[d]
                                            THEN "ARCHIVED"
                                            ELSE deployment.pkgs[i]],
                                         "ACTIVE"),
                         !.pc[d] = "idle",
                         !.sel[d] = {},
                         !.req[d] = NULL]
    /\ UNCHANGED <<tvars, creation, poller, docs, build, ereports, pipeline>>

DeployNext ==
    \E d \in Deployers :
        \/ DeployLoad(d)
        \/ DeployRefused(d)
        \/ DeploySelect(d)
        \/ DeployCommit(d)

SpecDeploy == Init /\ [][DeployNext]_vars

\* ================================================ BackgroundWorker._run_loop
\* Runs waiting in the queue at one time.
MaxQueued == 4

\* worker.py:45: while processed < 3.
CycleLimit == 3

\* A loop without the except clause: an exception ends the thread.
AfterCycleUncaught(ending) == IF ending = "exception" THEN "exited" ELSE "wait"

\* worker.py:51-54: whatever ended the cycle, the except clause logs an
\* exception and the finally clause waits.
AfterCycle(ending) == "wait"

EndCycle(ending) ==
    poller' = [poller EXCEPT !.pc = AfterCycle(ending), !.last = ending]

\* worker.py:40: while not self._stop_event.is_set().
PollTest ==
    /\ poller.pc = "test"
    /\ poller' = [poller EXCEPT !.pc = IF poller.stop THEN "exited" ELSE "open"]
    /\ UNCHANGED <<tvars, creation, deployment, docs, build, ereports, pipeline>>

\* worker.py:41-44: the session is opened (this can raise) and processed = 0.
PollOpen ==
    /\ poller.pc = "open"
    /\ \/ poller' = [poller EXCEPT !.pc = "call", !.processed = 0]
       \/ EndCycle("exception")
    /\ UNCHANGED <<tvars, creation, deployment, docs, build, ereports, pipeline>>

\* worker.py:45-50: process_next_queued_run returns None (no queued run),
\* returns the run it drove (READY or FAILED), or raises; the cycle goes on
\* while fewer than 3 runs were processed.
PollCall ==
    /\ poller.pc = "call"
    /\ \/ /\ poller.queue = 0
          /\ EndCycle("no run")
       \/ /\ poller.queue > 0
          /\ \E ending \in {"READY", "FAILED"} :
               IF poller.processed + 1 < CycleLimit
               THEN poller' = [poller EXCEPT !.queue = @ - 1,
                                             !.processed = @ + 1,
                                             !.last = ending]
               ELSE poller' = [poller EXCEPT !.queue = @ - 1,
                                             !.processed = @ + 1,
                                             !.last = ending,
                                             !.pc = AfterCycle(ending)]
       \/ /\ poller.queue > 0
          /\ poller' = [poller EXCEPT !.queue = @ - 1,
                                      !.pc = AfterCycle("exception"),
                                      !.last = "exception"]
       \/ EndCycle("exception")
    /\ UNCHANGED <<tvars, creation, deployment, docs, build, ereports, pipeline>>

\* worker.py:54: _stop_event.wait(worker_poll_seconds) returns.
PollWait ==
    /\ poller.pc = "wait"
    /\ poller' = [poller EXCEPT !.pc = "test"]
    /\ UNCHANGED <<tvars, creation, deployment, docs, build, ereports, pipeline>>

\* worker.py:32-33: stop() sets the event.
PollStop ==
    /\ ~poller.stop
    /\ poller' = [poller EXCEPT !.stop = TRUE]
    /\ UNCHANGED <<tvars, creation, deployment, docs, build, ereports, pipeline>>

\* A client's create_run or retry_run puts a run in the queue.
PollEnqueue ==
    /\ poller.queue < MaxQueued
    /\ poller' = [poller EXCEPT !.queue = @ + 1]
    /\ UNCHANGED <<tvars, creation, deployment, docs, build, ereports, pipeline>>

PollerNext ==
    PollTest \/ PollOpen \/ PollCall \/ PollWait \/ PollStop \/ PollEnqueue

SpecPoller == Init /\ [][PollerNext]_vars

\* ============================================================ ingest_upload
\* Documents ingested into the project in one behaviour.
MaxDocs == 4

\* Normalized texts of the uploaded files.
Texts == {"t1", "t2", "t3"}

\* ingest.py:68: sha256 of the normalized text; equal texts and only equal
\* texts have equal hashes.
Sha256(text) == <<"sha256", text>>

\* A status decision that looks at the PII hits first.
DocumentStatusPiiFirst(exact, pii, low, near) ==
    IF pii THEN "REDACTION_REQUIRED"
    ELSE IF exact THEN "REJECTED"
    ELSE IF low \/ near THEN "NEEDS_REVIEW"
    ELSE "READY"

\* ingest.py:109-116: exact is "exact_duplicate is not None", pii is
\* "pii_hits is non-empty", low is "quality_score < doc_quality_threshold",
\* near is "near_duplicate_of is not None".
DocumentStatusFor(exact, pii, low, near) ==
    IF exact THEN "REJECTED"
    ELSE IF pii THEN "REDACTION_REQUIRED"
    ELSE IF low \/ near THEN "NEEDS_REVIEW"
    ELSE "READY"

\* ingest.py:70-76: the rows the select of the exact duplicate matches.
SameHash(text) == {i \in 1..Len(docs) : docs[i].hash = Sha256(text)}

\* ingest.py:249-257: the candidates of _find_near_duplicate.
NearCandidates == {i \in 1..Len(docs) : docs[i].status # "REJECTED"}

\* ingest_upload: the select of lines 70-76 has no ORDER BY, so db.scalar
\* returns any one of the matching rows; without an exact duplicate
\* _find_near_duplicate returns a candidate or None (0); the document is
\* added and committed (lines 118-135).
Ingest ==
    /\ Len(docs) < MaxDocs
    /\ \E text \in Texts, pii \in BOOLEAN, low \in BOOLEAN :
         IF SameHash(text) # {}
         THEN \E dup \in SameHash(text) :
                docs' = Append(docs,
                    [hash |-> Sha256(text), pii |-> pii, low |-> low,
                     ndup |-> dup,
                     status |-> DocumentStatusFor(TRUE, pii, low, FALSE)])
         ELSE \E near \in {0} \cup NearCandidates :
                docs' = Append(docs,
                    [hash |-> Sha256(text), pii |-> pii, low |-> low,
                     ndup |-> near,
                     status |-> DocumentStatusFor(FALSE, pii, low, near # 0)])
    /\ UNCHANGED <<tvars, creation, deployment, poller, build, ereports, pipeline>>

IngestNext == Ingest

SpecIngest == Init /\ [][IngestNext]_vars

\* ============================================================ build_dataset
\* DatasetBuilderService.build_dataset: examples are synthesised per document,
\* bucketed by a hash of the source document id, and the validation and test
\* slices are topped up from the front of training when they are empty.

MaxDatasets == 2

MaxChunks == 1

\* int(sha256(doc_id).hexdigest()[:8], 16) % 100 for the ids of DocIds: a
\* table of values on both sides of the two thresholds.
HashValue(doc_id) ==
    CASE doc_id = "docA" -> 12
      [] doc_id = "docB" -> 69
      [] doc_id = "docC" -> 70
      [] doc_id = "docD" -> 85

BucketOfValue(value) ==
    IF value < 70 THEN "train"
    ELSE IF value < 85 THEN "val"
    ELSE "test"

split_bucket(doc_id) == BucketOfValue(HashValue(doc_id))

\* Three examples per chunk, then the refusal example that is always added.
ExamplesFromDocument(doc_id, chunks) ==
    [i \in 1..(3 * chunks + 1) |-> [doc_id |-> doc_id, n |-> i]]

RECURSIVE Examples(_, _)
Examples(order, documents) ==
    IF order = <<>> THEN <<>>
    ELSE ExamplesFromDocument(Head(order), documents[Head(order)])
             \o Examples(Tail(order), documents)

\* A variant that hashes the example instead of its source document.
BucketOfRowByExample(row) ==
    BucketOfValue((HashValue(row.doc_id) + 30 * row.n) % 100)

BucketOfRow(row) == split_bucket(row.doc_id)

InBucket(examples, bucket) ==
    SelectSeq(examples, LAMBDA row : BucketOfRow(row) = bucket)

\* A variant of pop(0) that takes the last row.
PopLast(rows) ==
    [item |-> rows[Len(rows)], rest |-> SubSeq(rows, 1, Len(rows) - 1)]

Pop0(rows) == [item |-> Head(rows), rest |-> Tail(rows)]

\* A variant of the top-up that leaves the moved row in training as well.
RebalanceCopy(train_rows, val_rows, test_rows) ==
    [train |-> train_rows,
     val |-> IF val_rows = <<>> /\ train_rows # <<>>
             THEN <<Head(train_rows)>> ELSE val_rows,
     test |-> IF test_rows = <<>> /\ train_rows # <<>>
              THEN <<Head(train_rows)>> ELSE test_rows]

Rebalance(train_rows, val_rows, test_rows) ==
    LET moveVal == val_rows = <<>> /\ train_rows # <<>>
        train1 == IF moveVal THEN Pop0(train_rows).rest ELSE train_rows
        val1 == IF moveVal THEN <<Pop0(train_rows).item>> ELSE val_rows
        moveTest == test_rows = <<>> /\ train1 # <<>>
        train2 == IF moveTest THEN Pop0(train1).rest ELSE train1
        test1 == IF moveTest THEN <<Pop0(train1).item>> ELSE test_rows
    IN [train |-> train2, val |-> val1, test |-> test1]

\* Whether the first two sentences of the document's chunks have 15 words
\* or more (a property of the text, fixed per document here).
LongSummary(doc_id) == doc_id \in {"docA", "docC"}

\* _score_example on the examples _examples_from_document builds: the
\* refusal example, last of its document, scores 78; the three examples of
\* a chunk (facts, how-to, edge) score 79, 84, 82 for a short summary and
\* 81, 86, 84 for a long one.
ExampleScore(row, documents) ==
    IF row.n = 3 * documents[row.doc_id] + 1 THEN 78
    ELSE CASE row.n % 3 = 1 -> IF LongSummary(row.doc_id) THEN 81 ELSE 79
           [] row.n % 3 = 2 -> IF LongSummary(row.doc_id) THEN 86 ELSE 84
           [] row.n % 3 = 0 -> IF LongSummary(row.doc_id) THEN 84 ELSE 82

Min(a, b) == IF a <= b THEN a ELSE b

\* Lines 100-101: during bucketing a row of the val or test bucket that
\* scores 80 or more goes to gold.  Lines 108-110: when gold is still empty
\* after the top-up, the first max(1, min(10, n)) of the n rows scoring 75
\* or more, in the order val, test, train.
CurateGold(examples, split, documents) ==
    LET direct == SelectSeq(examples, LAMBDA row :
                      /\ ExampleScore(row, documents) >= 80
                      /\ BucketOfRow(row) \in {"val", "test"})
        candidates == SelectSeq(split.val \o split.test \o split.train,
                          LAMBDA row : ExampleScore(row, documents) >= 75)
        k == IF Len(candidates) < 10 THEN Len(candidates) ELSE 10
    IN IF direct # <<>> THEN direct
       ELSE SubSeq(candidates, 1, Min(Len(candidates), IF k < 1 THEN 1 ELSE k))

Orders(S) ==
    {f \in [1..Cardinality(S) -> S] : \A i, j \in DOMAIN f : i # j => f[i] # f[j]}

Eligible == {d \in DocIds : build.documents[d] # NoDocument}

\* An eligible document with a given number of chunks comes into the project.
AddDocument ==
    /\ \E d \in DocIds \ Eligible, chunks \in 0..MaxChunks :
          build' = [build EXCEPT !.documents[d] = chunks]
    /\ UNCHANGED <<tvars, creation, deployment, poller, docs, ereports, pipeline>>

\* build_dataset over the eligible documents, or over those of them named in
\* document_ids; the select has no ORDER BY.
BuildDataset ==
    /\ Len(build.datasets) < MaxDatasets
    /\ \E chosen \in (SUBSET Eligible) \ {{}} :
       \E order \in Orders(chosen) :
          LET examples == Examples(order, build.documents)
              split == Rebalance(InBucket(examples, "train"),
                                 InBucket(examples, "val"),
                                 InBucket(examples, "test"))
          IN build' = [build EXCEPT !.datasets = Append(@,
                 [examples |-> examples, train |-> split.train,
                  val |-> split.val, test |-> split.test,
                  gold |-> CurateGold(examples, split, build.documents),
                  stats |-> [total_examples |-> Len(examples),
                             train_examples |-> Len(split.train),
                             val_examples |-> Len(split.val),
                             test_examples |-> Len(split.test)]])]
    /\ UNCHANGED <<tvars, creation, deployment, poller, docs, ereports, pipeline>>

DatasetNext == AddDocument \/ BuildDataset

SpecDataset == Init /\ [][DatasetNext]_vars


\* ============================================================ evaluate_run
\* EvaluationService.evaluate_run: aggregate metrics over the gold rows, the
\* regression delta against the latest report of another run of the project,
\* and the go/no-go verdict.  Rates are kept as counts over the number of
\* rows; semantic similarity is kept in units of 0.00001 and the stored,
\* rounded metric in units of 0.0001.

MaxReports == 2

GoldRows == 100

EvalRuns == {"runA", "runB"}

ExactMatchCounts == {59, 60}

UnsupportedCounts == {12, 13}

\* <<refusal_tp, refusal_fn>>: recall 0.8, recall 0.75, and no expected refusal.
RefusalCounts == {<<4, 1>>, <<3, 1>>, <<0, 0>>}

\* Values on both sides of 0.72, and values whose stored, rounded form is
\* 0.0499 and 0.0501 above 0.72.
SemanticValues == {71999, 72000, 72003, 76994, 77014}

Max(a, b) == IF a >= b THEN a ELSE b

\* round(x, 4) of a value given in units of 0.00001 (no input ends in 5).
Round4(v) == (v + 5) \div 10

\* Index of the report _latest_previous_report returns, 0 if there is none.
LatestPreviousReport(reports_, run_id) ==
    LET others == {i \in DOMAIN reports_ : reports_[i].training_run_id # run_id}
    IN IF others = {} THEN 0
       ELSE CHOOSE i \in others : \A j \in others : j <= i

\* semantic_similarity - float(previous_report.metrics_json["semantic_similarity"])
\* as sign and magnitude; none is set when regression_delta is None.
RegressionDelta(reports_, run_id, semantic) ==
    LET prev == LatestPreviousReport(reports_, run_id)
    IN IF prev = 0 THEN [none |-> TRUE, neg |-> FALSE, abs |-> 0]
       ELSE [none |-> FALSE,
             neg |-> semantic < 10 * reports_[prev].semantic_similarity,
             abs |-> IF semantic < 10 * reports_[prev].semantic_similarity
                     THEN 10 * reports_[prev].semantic_similarity - semantic
                     ELSE semantic - 10 * reports_[prev].semantic_similarity]

\* delta >= -0.05
DeltaAcceptable(delta) == ~delta.neg \/ delta.abs <= 5000

\* A variant that takes refusal recall as met when no row expects a refusal.
GoNoGoVacuousRecall(exact_matches, n, semantic, unsupported, tp, fn, delta) ==
    /\ 10 * exact_matches >= 6 * n
    /\ semantic >= 72000
    /\ 100 * unsupported <= 12 * n
    /\ (tp + fn = 0 \/ 10 * tp >= 8 * Max(tp + fn, 1))
    /\ (delta.none \/ DeltaAcceptable(delta))

\* A variant with a strict bound on the unsupported-claim rate.
GoNoGoStrictUnsupported(exact_matches, n, semantic, unsupported, tp, fn, delta) ==
    /\ 10 * exact_matches >= 6 * n
    /\ semantic >= 72000
    /\ 100 * unsupported < 12 * n
    /\ 10 * tp >= 8 * Max(tp + fn, 1)
    /\ (delta.none \/ DeltaAcceptable(delta))

GoNoGo(exact_matches, n, semantic, unsupported, tp, fn, delta) ==
    /\ 10 * exact_matches >= 6 * n
    /\ semantic >= 72000
    /\ 100 * unsupported <= 12 * n
    /\ 10 * tp >= 8 * Max(tp + fn, 1)
    /\ (delta.none \/ DeltaAcceptable(delta))

EvaluateRun ==
    /\ Len(ereports) < MaxReports
    /\ \E run_id \in EvalRuns, exact_matches \in ExactMatchCounts,
          unsupported \in UnsupportedCounts, refusal \in RefusalCounts,
          semantic \in SemanticValues :
          LET n == Max(GoldRows, 1)
              delta == RegressionDelta(ereports, run_id, semantic)
          IN ereports' = Append(ereports,
                 [training_run_id |-> run_id,
                  gold_examples |-> n,
                  exact_matches |-> exact_matches,
                  unsupported_claims |-> unsupported,
                  refusal_tp |-> refusal[1],
                  refusal_fn |-> refusal[2],
                  semantic |-> semantic,
                  semantic_similarity |-> Round4(semantic),
                  go_no_go |-> GoNoGo(exact_matches, n, semantic, unsupported,
                                      refusal[1], refusal[2], delta)])
    /\ UNCHANGED <<tvars, creation, deployment, poller, docs, build, pipeline>>

EvalNext == EvaluateRun

SpecEval == Init /\ [][EvalNext]_vars

\* ============================================ the queue and its callers
\* process_next_queued_run as called by the poller thread and by a request
\* of the same process, each on an orchestrator object of its own, over
\* several runs; the drive of a claimed run is followed stage by stage on
\* the stored row, and a READY run is handed to create_deployment.

MaxFaults == 1

PipeOthers == <<tvars, creation, deployment, poller, docs, build, ereports>>

PipeState(r) == pipeline.rows[r].state

PipeQueued == {r \in PipeRuns : PipeState(r) = "QUEUED"}

\* A select that takes the latest run of the queue.
NewestOf(S) == CHOOSE r \in S : \A q \in S : q <= r

\* order_by(created_at.asc()).limit(1); runs are created in id order and
\* keep created_at when they are retried.
OldestOf(S) == CHOOSE r \in S : \A q \in S : r <= q

\* A drive that stops a run whose report says no-go.
AfterEvaluationGated(verdict) ==
    IF verdict = "no_go" THEN "FAILED" ELSE "PACKAGING"

\* training.py:243-248: the verdict of the report is not read.
AfterEvaluation(verdict) == "PACKAGING"

\* create_run: the next run is inserted QUEUED.
PipeCreate ==
    /\ \E r \in PipeRuns :
         /\ PipeState(r) = NoRun
         /\ \A q \in PipeRuns : q < r => PipeState(q) # NoRun
         /\ pipeline' = [pipeline EXCEPT !.rows[r].state = "QUEUED"]
    /\ UNCHANGED PipeOthers

\* TrainingOrchestrator(db) and "with self._lock": the caller constructs its
\* orchestrator, whose lock is new, and takes it.
PipeAcquire(k) ==
    /\ pipeline.pc[k] = "idle"
    /\ ~pipeline.lock[k]
    /\ \E r \in PipeRuns : PipeState(r) # NoRun
    /\ pipeline' = [pipeline EXCEPT !.lock[k] = TRUE, !.pc[k] = "select",
                                    !.last[k] = "none"]
    /\ UNCHANGED PipeOthers

\* _claim_next_queued_run, the select; no candidate returns None.
PipeSelect(k) ==
    /\ pipeline.pc[k] = "select"
    /\ IF PipeQueued = {}
       THEN pipeline' = [pipeline EXCEPT !.pc[k] = "idle", !.lock[k] = FALSE,
                                         !.last[k] = "empty"]
       ELSE pipeline' = [pipeline EXCEPT !.pc[k] = "update",
                                         !.cand[k] = OldestOf(PipeQueued)]
    /\ UNCHANGED PipeOthers

\* _claim_next_queued_run, the conditional update: rowcount != 1 rolls back
\* and returns None.
PipeUpdate(k) ==
    /\ pipeline.pc[k] = "update"
    /\ IF PipeState(pipeline.cand[k]) = "QUEUED"
       THEN pipeline' = [pipeline EXCEPT
                            !.rows[pipeline.cand[k]].state = "PREFLIGHT",
                            !.pc[k] = "drive", !.last[k] = "claimed"]
       ELSE pipeline' = [pipeline EXCEPT !.pc[k] = "idle", !.lock[k] = FALSE,
                                         !.cand[k] = 0, !.last[k] = "lost"]
    /\ UNCHANGED PipeOthers

\* The stage the drive asks for next, by the stored state.
PipeTarget(state) ==
    CASE state = "PREFLIGHT" -> "STAGING"
      [] state = "STAGING" -> "TRAINING"
      [] state = "TRAINING" -> "EVALUATING"

\* _process_run up to the transition to EVALUATING, one stage at a time.
PipeAdvance(k) ==
    /\ pipeline.pc[k] = "drive"
    /\ PipeState(pipeline.cand[k]) \in {"PREFLIGHT", "STAGING", "TRAINING"}
    /\ CanTransition(PipeState(pipeline.cand[k]),
                     PipeTarget(PipeState(pipeline.cand[k])))
    /\ pipeline' = [pipeline EXCEPT !.rows[pipeline.cand[k]].state =
                                       PipeTarget(PipeState(pipeline.cand[k]))]
    /\ UNCHANGED PipeOthers

\* A step of the drive raises: _fail sets FAILED and the call returns.
PipeFail(k) ==
    /\ pipeline.pc[k] = "drive"
    /\ pipeline.faults < MaxFaults
    /\ pipeline' = [pipeline EXCEPT !.rows[pipeline.cand[k]].state = "FAILED",
                                    !.pc[k] = "idle", !.lock[k] = FALSE,
                                    !.cand[k] = 0,
                                    !.faults = @ + 1]
    /\ UNCHANGED PipeOthers

\* training.py:243-248: evaluate_run stores a report with its verdict, then
\* the transition to PACKAGING.
PipeEvaluate(k) ==
    /\ pipeline.pc[k] = "drive"
    /\ PipeState(pipeline.cand[k]) = "EVALUATING"
    /\ \E verdict \in {"go", "no_go"} :
         pipeline' = [pipeline EXCEPT
                         !.rows[pipeline.cand[k]].go = verdict,
                         !.rows[pipeline.cand[k]].state = AfterEvaluation(verdict),
                         !.pc[k] = IF AfterEvaluation(verdict) = "FAILED"
                                   THEN "idle" ELSE @,
                         !.lock[k] = AfterEvaluation(verdict) # "FAILED",
                         !.cand[k] = IF AfterEvaluation(verdict) = "FAILED"
                                     THEN 0 ELSE @]
    /\ UNCHANGED PipeOthers

\* training.py:249-263: the package, then READY with package_path; the call
\* returns and its lock is released.
PipePackage(k) ==
    /\ pipeline.pc[k] = "drive"
    /\ PipeState(pipeline.cand[k]) = "PACKAGING"
    /\ CanTransition("PACKAGING", "READY")
    /\ pipeline' = [pipeline EXCEPT !.rows[pipeline.cand[k]].state = "READY",
                                    !.rows[pipeline.cand[k]].pkg = TRUE,
                                    !.pc[k] = "idle", !.lock[k] = FALSE,
                                    !.cand[k] = 0]
    /\ UNCHANGED PipeOthers

\* retry_run of a failed run: QUEUED again, a new attempt with no report.
PipeRetry ==
    /\ \E r \in PipeRuns :
         /\ PipeState(r) \in Retryable
         /\ CanTransition(PipeState(r), "QUEUED")
         /\ pipeline' = [pipeline EXCEPT !.rows[r].state = "QUEUED"]
    /\ UNCHANGED PipeOthers

PipeActive == {i \in DOMAIN pipeline.pkgs : pipeline.pkgs[i][2] = "ACTIVE"}

\* create_deployment for a run of the project that has no package yet: the
\* run is checked, the ACTIVE packages are archived and the new one is ACTIVE.
PipeDeploy ==
    /\ \E r \in PipeRuns :
         /\ PipeState(r) # NoRun
         /\ \A i \in DOMAIN pipeline.pkgs : pipeline.pkgs[i][1] # r
         /\ DeployError([found |-> "same", state |-> PipeState(r),
                         pkg |-> pipeline.rows[r].pkg]) = NULL
         /\ pipeline' = [pipeline EXCEPT !.pkgs =
                Append([i \in DOMAIN pipeline.pkgs |->
                           <<pipeline.pkgs[i][1], "ARCHIVED">>],
                       <<r, "ACTIVE">>)]
    /\ UNCHANGED PipeOthers

PipeNext ==
    \/ PipeCreate
    \/ PipeRetry
    \/ PipeDeploy
    \/ \E k \in Callers :
          \/ PipeAcquire(k)
          \/ PipeSelect(k)
          \/ PipeUpdate(k)
          \/ PipeAdvance(k)
          \/ PipeFail(k)
          \/ PipeEvaluate(k)
          \/ PipePackage(k)

SpecPipeline == Init /\ [][PipeNext]_vars

\* ============================================================ properties

\* The positions of a worker that has claimed a run and not yet returned.
DrivePcs == {"claimed", "p_start", "preflight", "to_staging", "staged",
             "tr_load", "to_training", "tr_prog", "engine_load", "engine",
             "ev_load", "to_evaluating", "evaluate", "pk_load", "to_packaging",
             "package_load", "package", "audit", "fail", "fail_msg"}


IsClaimEvent(e) == e = <<"QUEUED", "PREFLIGHT">>
IsQueuedEvent(e) == e[2] = "QUEUED"

\* Claims of r that won: recorded ones and those whose event is still to come.
ClaimWins(r) ==
    Cardinality({i \in 1..Len(events[r]) : IsClaimEvent(events[r][i])})
    + Cardinality({w \in Workers : wpc[w] = "claimed" /\ wrun[w] = r})

\* Times r was put in QUEUED: recorded ones and a creation whose event is
\* still to come.
QueuedEntries(r) ==
    Cardinality({i \in 1..Len(events[r]) : IsQueuedEvent(events[r][i])})
    + Cardinality({c \in Clients : cpc[c] = "create_event" /\ crun[c] = r})

\* A worker executes the conditional update of its claim in this step.
ClaimAttempt(w) == wpc[w] = "claim" /\ wpc'[w] # "claim"

C1_ClaimStep ==
    \A w \in Workers : ClaimAttempt(w) =>
        LET r == wrun[w] IN
        IF runs[r].state = "QUEUED"
        THEN /\ runs'[r].state = "PREFLIGHT"
             /\ wpc'[w] = "claimed"
             /\ \A v \in Workers \ {w} : wpc'[v] = wpc[v]
        ELSE /\ wpc'[w] = "idle"
             /\ runs' = runs
             /\ events' = events

\* C1: of the workers that run the claim on a QUEUED run exactly one obtains
\* it: the claim of a QUEUED run moves it to PREFLIGHT and makes that worker
\* the claimant, a claim that finds the run no longer QUEUED returns "no run"
\* (no error, nothing written), and a run never has more claims won,
\* QUEUED -> PREFLIGHT events included, than times it entered QUEUED.
C1_ExactlyOneClaimWins ==
    /\ [](\A r \in RunIds : ClaimWins(r) <= QueuedEntries(r))
    /\ [][C1_ClaimStep]_vars

\* Two workers selected the same QUEUED run; one has won the update, the
\* other still holds the run as its candidate and will lose.
C1_Witness ==
    \E w, v \in Workers :
        /\ w # v
        /\ wrun[w] = wrun[v]
        /\ wpc[w] = "claimed"
        /\ wpc[v] = "claim"
        /\ runs[wrun[w]].state = "PREFLIGHT"

Drivers(r) == {w \in Workers : wrun[w] = r /\ wpc[w] \in DrivePcs}

\* C2: at any time at most one worker is executing the drive sequence of a
\* given run.
C2_AtMostOneDriver == \A r \in RunIds : Cardinality(Drivers(r)) <= 1


Stage == <<"QUEUED", "PREFLIGHT", "STAGING", "TRAINING", "EVALUATING",
           "PACKAGING", "READY">>

\* The state a worker asks _transition for at each position of the drive.
Requested(pc) ==
    CASE pc = "to_staging"    -> "STAGING"
      [] pc = "to_training"   -> "TRAINING"
      [] pc = "to_evaluating" -> "EVALUATING"
      [] pc = "to_packaging"  -> "PACKAGING"
      [] pc = "package"       -> "READY"

TransitionPcs == {"to_staging", "to_training", "to_evaluating", "to_packaging",
                  "package"}

C3_Table ==
    /\ \A i, j \in 1..Len(Stage) :
           j > i + 1 => Stage[j] \notin ALLOWED_TRANSITIONS(Stage[i])
    /\ ALLOWED_TRANSITIONS("READY") = {}
    /\ ALLOWED_TRANSITIONS("FAILED") \subseteq {"QUEUED"}
    /\ ALLOWED_TRANSITIONS("CANCELLED") \subseteq {"QUEUED"}

C3_Step ==
    /\ \A w \in Workers :
         ( /\ wpc[w] \in TransitionPcs
           /\ wpc'[w] # wpc[w]
           /\ Requested(wpc[w]) \notin ALLOWED_TRANSITIONS(wloc[w]) )
         => /\ wpc'[w] = "fail"
            /\ werr'[w] # NULL
            /\ runs' = runs
            /\ events' = events
    /\ \A c \in Clients :
         ( /\ cpc[c] \in {"cancel", "retry"}
           /\ cpc'[c] # cpc[c]
           /\ (IF cpc[c] = "cancel" THEN "CANCELLED" ELSE "QUEUED")
                  \notin ALLOWED_TRANSITIONS(cloc[c]) )
         => /\ cpc'[c] = "rejected"
            /\ runs' = runs
            /\ events' = events

\* C3: the allowed-transition table has no forward skip, no exit from READY
\* and none from FAILED or CANCELLED but to QUEUED; and a request to
\* _transition that the table does not hold raises an error, changes no run
\* and appends no RunEvent.
C3_InvalidTransitionFails == [](C3_Table) /\ [][C3_Step]_vars

\* A worker whose session saw the run in PREFLIGHT asked for a later stage
\* than STAGING, was refused and is in its failure handling; the run is as
\* it was.
C3_Witness ==
    \E w \in Workers :
        /\ wpc[w] = "fail"
        /\ werr[w] = "Invalid transition"
        /\ wloc[w] = "PREFLIGHT"
        /\ runs[wrun[w]].state = "PREFLIGHT"

\* C4: once a run's state is READY it never changes again.
C4_ReadyIsFinal ==
    [][\A r \in RunIds : runs[r].state = "READY" => runs'[r].state = "READY"]_vars

\* C5: a run in FAILED or CANCELLED leaves that state only by retry_run
\* moving it to QUEUED.
C5_TerminalLeftOnlyByRetry ==
    [][\A r \in RunIds :
          ( /\ runs[r].state \in {"FAILED", "CANCELLED"}
            /\ runs'[r].state # runs[r].state )
          => /\ runs'[r].state = "QUEUED"
             /\ \E c \in Clients :
                    cpc[c] = "retry" /\ crun[c] = r /\ cpc'[c] = "retry_reset"]_vars

HasEventTo(seq, s) == \E i \in 1..Len(seq) : seq[i][2] = s

\* C6: when a step of the drive raises, the call returns normally (the
\* exception does not reach the caller) with the run FAILED, its error
\* message set and a RunEvent to FAILED in its trail.
C6_StepFailureEndsFailed ==
    [][\A w \in Workers :
          ( /\ wpc[w] \in {"p_start", "fail", "fail_msg"}
            /\ wpc'[w] \in {"idle", "raised"} )
          => /\ wpc'[w] = "idle"
             /\ runs'[wrun[w]].state = "FAILED"
             /\ runs'[wrun[w]].err # NULL
             /\ HasEventTo(events'[wrun[w]], "FAILED")]_vars

ToStates(seq) == [i \in 1..Len(seq) |-> seq[i][2]]

\* No step of a drive of r failed, r was never cancelled, and create_run had
\* recorded its event before a claim recorded one.
CleanHistory(r) ==
    /\ events[r] # <<>>
    /\ events[r][1] = <<NULL, "QUEUED">>
    /\ ~HasEventTo(events[r], "FAILED")
    /\ ~HasEventTo(events[r], "CANCELLED")
    /\ runs[r].err = NULL

C8_Step ==
    \A c \in Clients :
      /\ (cpc[c] = "idle" /\ cpc'[c] \in {"retry", "rejected"})
         => /\ (runs[crun'[c]].state \in {"FAILED", "CANCELLED"}) <=> (cpc'[c] = "retry")
            /\ runs' = runs
            /\ events' = events
      /\ (cpc[c] = "rejected" /\ cpc'[c] # "rejected")
         => /\ runs' = runs
            /\ events' = events
      /\ (cpc[c] = "retry" /\ cpc'[c] # "retry")
         => /\ cpc'[c] = "retry_reset"
            /\ runs'[crun[c]].state = "QUEUED"
            /\ events'[crun[c]] = Append(events[crun[c]], <<cloc[c], "QUEUED">>)
      /\ (cpc[c] = "retry_reset" /\ cpc'[c] # "retry_reset")
         => /\ runs'[crun[c]].progress = 0
            /\ runs'[crun[c]].err = NULL
            /\ runs'[crun[c]].state = runs[crun[c]].state
            /\ events' = events

\* C8: retry_run on a run it finds FAILED or CANCELLED commits QUEUED with
\* one RunEvent and then progress 0 and no error message; on a run it finds
\* in any other state it raises and writes nothing.
C8_RetryContract == [][C8_Step]_vars

Last(seq) == seq[Len(seq)]

\* A failed run was retried: it is QUEUED with progress 0 and no error, and
\* the retry's event is the last of its trail; a second retry request has
\* found it QUEUED and is refused.
C8_Witness ==
    \E c \in Clients :
        /\ cpc[c] = "rejected"
        /\ cloc[c] = "QUEUED"
        /\ runs[crun[c]].state = "QUEUED"
        /\ runs[crun[c]].progress = 0
        /\ runs[crun[c]].err = NULL
        /\ Last(events[crun[c]]) = <<"FAILED", "QUEUED">>
        /\ \A w \in Workers : wpc[w] = "idle"

C9_Step ==
    \A c \in Clients :
      /\ (cpc[c] = "idle" /\ cpc'[c] \in {"cancel", "cancel_noop"})
         => /\ (runs[crun'[c]].state \in {"READY", "FAILED", "CANCELLED"})
                   <=> (cpc'[c] = "cancel_noop")
            /\ runs' = runs
            /\ events' = events
      /\ (cpc[c] = "cancel_noop" /\ cpc'[c] # "cancel_noop")
         => /\ runs' = runs
            /\ events' = events
      /\ (cpc[c] = "cancel" /\ cpc'[c] # "cancel")
         => /\ cpc'[c] = "idle"
            /\ runs'[crun[c]] = [runs[crun[c]] EXCEPT
                                    !.state = "CANCELLED",
                                    !.msg = "Run cancelled by user"]
            /\ events'[crun[c]] = Append(events[crun[c]], <<cloc[c], "CANCELLED">>)

\* C9: cancel_run on a run it finds READY, FAILED or CANCELLED writes
\* nothing; on a run it finds in any other state it commits CANCELLED with
\* exactly one RunEvent and leaves progress and error as they are.
C9_CancelContract == [][C9_Step]_vars

\* A run was cancelled (the event is the last of its trail), and a second
\* cancel request has found it CANCELLED and returns it untouched.
C9_Witness ==
    \E c \in Clients :
        /\ cpc[c] = "cancel_noop"
        /\ cloc[c] = "CANCELLED"
        /\ runs[crun[c]].state = "CANCELLED"
        /\ Last(events[crun[c]])[2] = "CANCELLED"

Quiescent ==
    /\ \A w \in Workers : wpc[w] = "idle"
    /\ \A c \in Clients : cpc[c] = "idle"

Chained(seq) ==
    /\ seq # <<>>
    /\ seq[1] = <<NULL, "QUEUED">>
    /\ \A i \in 2..Len(seq) : seq[i][1] = seq[i - 1][2]

\* C10: the RunEvents of a run mirror its state history: the first is
\* None -> QUEUED, each later from_state is the previous to_state, and the
\* last to_state is the stored state.  Stated for the states in which no
\* request and no worker call is under way.
C10_EventsMirrorState ==
    Quiescent =>
        \A r \in Existing :
            /\ Chained(events[r])
            /\ Last(events[r])[2] = runs[r].state

\* The conditions create_run requires of a request, when the tenant has
\* n runs this month.
Admissible(req, n) ==
    /\ req.rights
    /\ n < MonthlyQuota
    /\ req.dataset \in {"READY", "NEEDS_REVIEW"}
    /\ req.model = "approved"
    /\ req.fits

EventsOf(i) == {k \in 1..Len(creation.events) : creation.events[k][1] = i}

C11_Inv ==
    /\ \A k \in 1..Len(creation.events) :
           creation.events[k][1] \in 1..Len(creation.runs)
    /\ \A i \in 1..Len(creation.runs) :
           /\ Cardinality(EventsOf(i)) <= 1
           /\ \A k \in EventsOf(i) : creation.events[k] = <<i, NULL, "QUEUED">>
           /\ (creation.pc = "idle" => Cardinality(EventsOf(i)) = 1)

C11_Step ==
    /\ (creation.pc = "idle" /\ creation'.pc # "idle")
       => /\ creation'.pc = (IF Admissible(creation'.req, Len(creation.runs))
                             THEN "insert" ELSE "refused")
          /\ creation'.runs = creation.runs
          /\ creation'.events = creation.events
    /\ (creation.pc = "refused")
       => /\ creation'.runs = creation.runs
          /\ creation'.events = creation.events
    /\ (creation'.runs # creation.runs)
       => /\ Admissible(creation.req, Len(creation.runs))
          /\ creation'.runs =
                 Append(creation.runs, [state |-> "QUEUED", progress |-> 0])

\* C11: create_run persists a run only for a request with data rights
\* confirmed, the tenant under its monthly quota, a dataset of the same tenant
\* and project in READY or NEEDS_REVIEW, an approved base model and a VRAM
\* estimate that fits; any other request is refused with neither a run nor a
\* RunEvent written; a created run is QUEUED with progress 0 and, once the
\* call has returned, has exactly one RunEvent, None -> QUEUED.
C11_CreateContract == [](C11_Inv) /\ [][C11_Step]_vars

\* A request that passes every check but the quota is refused, the tenant
\* having created MonthlyQuota runs with one event each.
C11_Witness ==
    /\ creation.pc = "refused"
    /\ Len(creation.runs) = MonthlyQuota
    /\ Len(creation.events) = MonthlyQuota
    /\ creation.req = [rights |-> TRUE, dataset |-> "READY",
                       model |-> "approved", fits |-> TRUE]

\* C12: a project has at most one DeploymentPackage with status ACTIVE, also
\* when create_deployment calls for it run concurrently.
C12_AtMostOneActive == Cardinality(ActivePackages) <= 1

Deployable(req) == req.found = "same" /\ req.state = "READY" /\ req.pkg

C13_Step ==
    \A d \in Deployers :
      /\ (deployment.pc[d] = "idle" /\ deployment'.pc[d] # "idle")
         => /\ deployment'.pc[d] = (IF Deployable(deployment'.req[d])
                                    THEN "select" ELSE "refused")
            /\ deployment'.pkgs = deployment.pkgs
      /\ (deployment.pc[d] = "refused" /\ deployment'.pc[d] # "refused")
         => deployment'.pkgs = deployment.pkgs
      /\ (deployment.pc[d] = "commit" /\ deployment'.pc[d] # "commit")
         => /\ Deployable(deployment.req[d])
            /\ Len(deployment'.pkgs) = Len(deployment.pkgs) + 1

\* C13: create_deployment goes on only for a run of the same tenant and
\* project that is READY with its package path set; for any other run it
\* raises, adds no DeploymentPackage and leaves the status of every package
\* as it is.  A package is added only by a request for a deployable run.
C13_DeployContract ==
    /\ [][C13_Step]_vars
    /\ [][deployment'.pkgs # deployment.pkgs
            => \E d \in Deployers : deployment.pc[d] = "commit"
                                    /\ Deployable(deployment.req[d])]_vars

\* A request for a run of this project that is not READY, though its package
\* path is set, is refused while the project has an ACTIVE package.
C13_Witness ==
    \E d \in Deployers :
        /\ deployment.pc[d] = "refused"
        /\ deployment.req[d] = [found |-> "same", state |-> "FAILED", pkg |-> TRUE]
        /\ ActivePackages # {}

InCycle == {"open", "call"}

C14_Step ==
    /\ (poller.pc \in InCycle /\ poller'.pc \notin InCycle) => poller'.pc = "wait"
    /\ (poller.pc = "wait" /\ poller'.pc # "wait") => poller'.pc = "test"
    /\ (poller.pc = "test" /\ poller'.pc # "test")
       => poller'.pc = (IF poller.stop THEN "exited" ELSE "open")
    /\ (poller'.pc = "exited") => (poller.pc = "exited" \/ poller.stop)

\* C14: whatever ends a cycle of _run_loop (no queued run, runs driven to
\* READY or FAILED, an exception), the loop waits and then tests the stop
\* event; it starts the next cycle unless stop was requested, and it is left
\* only when stop was requested.
C14_PollerKeepsRunning ==
    /\ [](poller.pc = "exited" => poller.stop)
    /\ [](poller.processed <= CycleLimit)
    /\ [][C14_Step]_vars

\* A cycle ended with an exception, and the loop has waited, tested the stop
\* event and started its next cycle.
C14_Witness ==
    /\ poller.pc = "open"
    /\ poller.last = "exception"
    /\ ~poller.stop

\* The documents ingested before document i with the same content hash.
EarlierCopies(i) == {j \in 1..(i - 1) : docs[j].hash = docs[i].hash}

\* C15: the status of an ingested document is REJECTED if an earlier document
\* of the project has its content hash; else REDACTION_REQUIRED if it has a
\* PII hit; else NEEDS_REVIEW if its quality score is below the threshold or
\* a near-duplicate was found; else READY.
C15_StatusPriority ==
    \A i \in 1..Len(docs) :
        LET d == docs[i] IN
        /\ (EarlierCopies(i) # {}) => d.status = "REJECTED"
        /\ (EarlierCopies(i) = {} /\ d.pii) => d.status = "REDACTION_REQUIRED"
        /\ (EarlierCopies(i) = {} /\ ~d.pii /\ (d.low \/ d.ndup # 0))
           => d.status = "NEEDS_REVIEW"
        /\ (EarlierCopies(i) = {} /\ ~d.pii /\ ~d.low /\ d.ndup = 0)
           => d.status = "READY"

\* An exact duplicate with PII hits and a low score is REJECTED, and a first
\* copy with a PII hit, a low score and a near-duplicate is REDACTION_REQUIRED.
C15_Witness ==
    \E i, j \in 1..Len(docs) :
        /\ EarlierCopies(i) # {} /\ docs[i].pii /\ docs[i].low
        /\ docs[i].status = "REJECTED"
        /\ EarlierCopies(j) = {} /\ docs[j].pii /\ docs[j].low /\ docs[j].ndup # 0
        /\ docs[j].status = "REDACTION_REQUIRED"

First(S) == CHOOSE j \in S : \A k \in S : j <= k

\* C16: a document whose text equals that of an earlier document of the
\* project is REJECTED and its near-duplicate reference is the earliest
\* document with that content hash.
C16_RejectedReferencesFirst ==
    \A i \in 1..Len(docs) :
        EarlierCopies(i) # {}
        => /\ docs[i].status = "REJECTED"
           /\ docs[i].ndup = First(EarlierCopies(i))


\* ------------------------------------------------------------ C17, C18
Datasets == {build.datasets[i] : i \in DOMAIN build.datasets}

Rows(seq) == {seq[i] : i \in DOMAIN seq}

SplitNames == {"train", "val", "test"}

SplitRows(ds, name) ==
    CASE name = "train" -> Rows(ds.train)
      [] name = "val" -> Rows(ds.val)
      [] name = "test" -> Rows(ds.test)

\* The splits in which examples of a document are written by one build.
SplitsOf(ds, doc_id) ==
    {name \in SplitNames : \E row \in SplitRows(ds, name) : row.doc_id = doc_id}

Borrowed(ds, name) ==
    /\ \A row \in Rows(ds.examples) : split_bucket(row.doc_id) # name
    /\ Cardinality(SplitRows(ds, name)) = 1
    /\ \A row \in SplitRows(ds, name) : split_bucket(row.doc_id) = "train"

Bucketed(ds, name) ==
    SelectSeq(ds.examples, LAMBDA row : split_bucket(row.doc_id) = name)

\* C18: if the final training split is non-empty, validation and test are
\* non-empty; a split that is empty after bucketing while training is
\* non-empty receives exactly the first row of training (validation first,
\* then test from what remains), and nothing moves otherwise.
C18_NonEmptySlices ==
    \A ds \in Datasets :
        LET t0 == Bucketed(ds, "train")
            v0 == Bucketed(ds, "val")
            s0 == Bucketed(ds, "test")
            t1 == IF v0 = <<>> /\ t0 # <<>> THEN Tail(t0) ELSE t0
        IN /\ ds.train # <<>> => ds.val # <<>> /\ ds.test # <<>>
           /\ ds.val = IF v0 = <<>> /\ t0 # <<>> THEN <<t0[1]>> ELSE v0
           /\ ds.test = IF s0 = <<>> /\ t1 # <<>> THEN <<t1[1]>> ELSE s0
           /\ ds.train = IF s0 = <<>> /\ t1 # <<>> THEN Tail(t1) ELSE t1

\* A single train-bucket document with 4 examples yields 2 / 1 / 1, the
\* first example in validation and the second in test.
C18_Witness ==
    \E ds \in Datasets :
        /\ Len(ds.examples) = 4
        /\ \A row \in Rows(ds.examples) : row.doc_id = "docA"
        /\ ds.val = <<[doc_id |-> "docA", n |-> 1]>>
        /\ ds.test = <<[doc_id |-> "docA", n |-> 2]>>
        /\ Len(ds.train) = 2


\* ------------------------------------------------------------ C19
\* The reports created before report i for another training run.
PriorOfOtherRun(i) ==
    {j \in 1..(i - 1) : ereports[j].training_run_id # ereports[i].training_run_id}

\* Report i does not regress: no earlier report of another run, or its
\* semantic similarity is at most 0.05 below the stored semantic similarity
\* of the latest such report.
NoRegression(i) ==
    \/ PriorOfOtherRun(i) = {}
    \/ \E j \in PriorOfOtherRun(i) :
          /\ \A k \in PriorOfOtherRun(i) : k <= j
          /\ ereports[i].semantic + 5000 >= 10 * ereports[j].semantic_similarity

OtherMetricsPass(i) ==
    /\ 10 * ereports[i].exact_matches >= 6 * ereports[i].gold_examples
    /\ ereports[i].semantic >= 72000
    /\ 10 * ereports[i].refusal_tp
          >= 8 * Max(ereports[i].refusal_tp + ereports[i].refusal_fn, 1)
    /\ NoRegression(i)

\* C19: go_no_go of a report is true exactly when exact-match >= 0.6, semantic
\* similarity >= 0.72, unsupported-claim rate <= 0.12, refusal recall >= 0.8
\* and (no prior report of another run, or regression delta >= -0.05); with
\* the other metrics passing, 12 unsupported rows of 100 give true and 13
\* give false.
C19_GoNoGoThresholds ==
    \A i \in DOMAIN ereports :
        /\ ereports[i].go_no_go <=>
              /\ OtherMetricsPass(i)
              /\ 100 * ereports[i].unsupported_claims <= 12 * ereports[i].gold_examples
        /\ (OtherMetricsPass(i) /\ ereports[i].gold_examples = 100) =>
              /\ ereports[i].unsupported_claims = 12 => ereports[i].go_no_go
              /\ ereports[i].unsupported_claims = 13 => ~ereports[i].go_no_go

\* A second report, of another run, passes with 12 unsupported rows of 100
\* and a semantic similarity 0.0499 below the stored one of the first.
C19_Witness ==
    /\ Len(ereports) = 2
    /\ PriorOfOtherRun(2) = {1}
    /\ ereports[1].semantic = 76994
    /\ ereports[2].semantic = 72000
    /\ ereports[2].unsupported_claims = 12
    /\ ereports[2].gold_examples = 100
    /\ ereports[2].go_no_go


\* ------------------------------------------------------------ C20
\* C20: once cancel_run has committed CANCELLED for a run a worker is
\* driving, no step of that drive changes the stored state: the drive does
\* not overwrite the cancellation with a later stage, READY or FAILED.
C20_Step ==
    \A r \in RunIds :
        (/\ Stored(r) = "CANCELLED"
         /\ \E w \in Drivers(r) : wpc'[w] # wpc[w])
            => runs'[r].state = "CANCELLED"

C20_DriveKeepsCancelled == [][C20_Step]_vars


\* ------------------------------------------------------------ C21
\* The callers that are inside the claim step of process_next_queued_run.
InClaimStep == {k \in Callers : pipeline.pc[k] \in {"select", "update"}}

\* C21: two calls of process_next_queued_run in one process never execute
\* the claim step at the same time.
C21_ClaimStepsExclusive == Cardinality(InClaimStep) <= 1


\* ------------------------------------------------------------ C24
\* The select of caller k: its candidate is the earliest-created run among
\* those QUEUED at that moment.
C24_SelectStep(k) ==
    (pipeline.pc[k] = "select" /\ pipeline'.pc[k] = "update") =>
        /\ pipeline'.cand[k] \in PipeQueued
        /\ \A q \in PipeQueued : pipeline'.cand[k] <= q

\* The conditional update of caller k: it claims its candidate, or it
\* returns with no run claimed and no row changed.
C24_UpdateStep(k) ==
    (pipeline.pc[k] = "update" /\ pipeline'.pc[k] # "update") =>
        \/ /\ pipeline'.pc[k] = "drive"
           /\ PipeState(pipeline.cand[k]) = "QUEUED"
           /\ pipeline'.rows[pipeline.cand[k]].state = "PREFLIGHT"
           /\ \A r \in PipeRuns \ {pipeline.cand[k]} :
                 pipeline'.rows[r] = pipeline.rows[r]
        \/ /\ pipeline'.pc[k] = "idle"
           /\ pipeline'.last[k] = "lost"
           /\ pipeline'.rows = pipeline.rows

\* C24: the claim takes the earliest-created run among the runs QUEUED when
\* it selects, never a later-created one while an earlier-created one is
\* QUEUED at the select, and a caller that loses the conditional update
\* returns without claiming another QUEUED run.
C24_OldestFirst ==
    [][\A k \in Callers : C24_SelectStep(k) /\ C24_UpdateStep(k)]_vars

\* A caller has lost the conditional update and returned while another run
\* is QUEUED.
C24_Witness ==
    \E k \in Callers :
        /\ pipeline.pc[k] = "idle"
        /\ pipeline.last[k] = "lost"
        /\ PipeQueued # {}

\* ------------------------------------------------------------ C29
\* A step of the drive of a run that is being evaluated or packaged, other
\* than a step that raises.
C29_DriveStep(k) ==
    LET r == pipeline.cand[k]
    IN  /\ (/\ pipeline.pc[k] = "drive"
            /\ PipeState(r) = "EVALUATING"
            /\ pipeline'.rows[r].go = "no_go"
            /\ pipeline'.rows[r].state # "EVALUATING"
            /\ pipeline'.faults = pipeline.faults)
               => pipeline'.rows[r].state = "PACKAGING"
        /\ (/\ pipeline.pc[k] = "drive"
            /\ PipeState(r) = "PACKAGING"
            /\ pipeline.rows[r].go = "no_go"
            /\ pipeline'.rows[r].state # "PACKAGING"
            /\ pipeline'.faults = pipeline.faults)
               => pipeline'.rows[r].state = "READY"

\* create_deployment of a READY run whose report says no-go is accepted:
\* it is enabled, and the step that serves it leaves the run's package ACTIVE.
C29_DeployStep ==
    \A r \in PipeRuns :
        (/\ PipeState(r) = "READY"
         /\ pipeline.rows[r].go = "no_go"
         /\ Len(pipeline'.pkgs) > Len(pipeline.pkgs)
         /\ pipeline'.pkgs[Len(pipeline'.pkgs)][1] = r)
            => pipeline'.pkgs[Len(pipeline'.pkgs)][2] = "ACTIVE"

\* C29: a run whose EvaluationReport has go/no-go false still proceeds
\* EVALUATING -> PACKAGING -> READY, and create_deployment accepts it and
\* makes its package ACTIVE.
C29_VerdictDoesNotGate ==
    /\ [][(\A k \in Callers : C29_DriveStep(k)) /\ C29_DeployStep]_vars
    /\ [](\A r \in PipeRuns :
            (PipeState(r) = "READY" /\ pipeline.rows[r].go = "no_go") =>
                DeployError([found |-> "same", state |-> PipeState(r),
                             pkg |-> pipeline.rows[r].pkg]) = NULL)

\* A run with a no-go report is READY and its package is the ACTIVE one.
C29_Witness ==
    \E r \in PipeRuns :
        /\ PipeState(r) = "READY"
        /\ pipeline.rows[r].go = "no_go"
        /\ \E i \in PipeActive : pipeline.pkgs[i][1] = r


\* ------------------------------------------------------------ C22
\* C22: while a run is being driven its stored progress never decreases; a
\* concurrent retry_run or cancel_run does not make it go backwards.
C22_Step ==
    \A r \in RunIds :
        Drivers(r) # {} => runs'[r].progress >= runs[r].progress

C22_ProgressMonotone == [][C22_Step]_vars

\* ------------------------------------------------------------ C26
\* C26: in every committed state a QUEUED run has progress 0 and no error
\* message.
C26_QueuedIsClean ==
    \A r \in RunIds :
        runs[r].state = "QUEUED" => runs[r].progress = 0 /\ runs[r].err = NULL

\* ------------------------------------------------------------ C27
\* C27: in every committed state a READY run has progress 1.0 and its
\* checkpoint, adapter, package and evaluation report set, and a run that
\* is not READY does not have progress 1.0.
C27_ReadyIsComplete ==
    \A r \in RunIds :
        /\ runs[r].state = "READY" =>
              /\ runs[r].progress = 100
              /\ runs[r].ckpt /\ runs[r].adapter /\ runs[r].pkg /\ runs[r].eval
        /\ runs[r].state # "READY" => runs[r].progress # 100


\* ------------------------------------------------------------ C25
\* C25: with the poller running, every run that enters QUEUED is eventually
\* READY or FAILED, or is cancelled: no run waits in the queue or stays in
\* PREFLIGHT, STAGING, TRAINING, EVALUATING or PACKAGING forever.
C25_EveryRunFinishes ==
    \A r \in RunIds :
        (runs[r].state = "QUEUED") ~>
            (runs[r].state \in {"READY", "FAILED", "CANCELLED"})


\* ------------------------------------------------------------ C23
\* The rows of the final validation and test splits that score 80 or more.
HighValTest(ds) ==
    {row \in Rows(ds.val) \cup Rows(ds.test) :
        ExampleScore(row, build.documents) >= 80}

\* C23: gold holds every row of the final validation and test splits that
\* scores 80 or more, and nothing else, whenever there is such a row; only
\* when there is none does it hold rows scoring 75 or more from all splits,
\* at most 10 of them and at least 1 if there is any.
C23_GoldFromFinalSplits ==
    \A ds \in Datasets :
        IF HighValTest(ds) # {}
        THEN Rows(ds.gold) = HighValTest(ds)
        ELSE /\ \A row \in Rows(ds.gold) :
                   ExampleScore(row, build.documents) >= 75
             /\ Len(ds.gold) <= 10
             /\ (\E row \in Rows(ds.examples) :
                    ExampleScore(row, build.documents) >= 75) => Len(ds.gold) >= 1

\* ------------------------------------------------------------ C28
\* C28: every synthesized example is in exactly one of train, validation and
\* test: the splits are pairwise disjoint and hold no row twice, their sizes
\* sum to total_examples of the stats, and together they hold exactly the
\* examples, also when rows were moved to keep validation and test non-empty.
C28_SplitsPartitionExamples ==
    \A ds \in Datasets :
        /\ Rows(ds.train) \cap Rows(ds.val) = {}
        /\ Rows(ds.train) \cap Rows(ds.test) = {}
        /\ Rows(ds.val) \cap Rows(ds.test) = {}
        /\ \A name \in SplitNames :
              Cardinality(SplitRows(ds, name)) =
                 Len(CASE name = "train" -> ds.train
                       [] name = "val" -> ds.val
                       [] name = "test" -> ds.test)
        /\ Rows(ds.train) \cup Rows(ds.val) \cup Rows(ds.test) = Rows(ds.examples)
        /\ ds.stats.total_examples = Len(ds.examples)
        /\ ds.stats.train_examples + ds.stats.val_examples + ds.stats.test_examples
              = ds.stats.total_examples
        /\ ds.stats.train_examples = Len(ds.train)
        /\ ds.stats.val_examples = Len(ds.val)
        /\ ds.stats.test_examples = Len(ds.test)

\* A build of two train-bucket documents with 8 examples in which both
\* validation and test received a row from training.
C28_Witness ==
    \E ds \in Datasets :
        /\ ds.stats.total_examples = 8
        /\ ds.stats.train_examples = 6
        /\ Borrowed(ds, "val")
        /\ Borrowed(ds, "test")


\* ------------------------------------------------------------ C30
\* C30: when no evaluated row expects a refusal (no true positive and no
\* false negative) refusal recall is 0 / max(0, 1) = 0, below 0.8, and the
\* verdict is false whatever the other metrics are.
C30_NoExpectedRefusalIsNoGo ==
    \A i \in DOMAIN ereports :
        (ereports[i].refusal_tp = 0 /\ ereports[i].refusal_fn = 0) =>
            /\ 10 * ereports[i].refusal_tp
                  < 8 * Max(ereports[i].refusal_tp + ereports[i].refusal_fn, 1)
            /\ ~ereports[i].go_no_go

\* A first report with no expected refusal whose other metrics all pass.
C30_Witness ==
    /\ Len(ereports) >= 1
    /\ ereports[1].refusal_tp = 0
    /\ ereports[1].refusal_fn = 0
    /\ ereports[1].exact_matches = 60
    /\ ereports[1].semantic = 72003
    /\ ereports[1].unsupported_claims = 12
    /\ ~ereports[1].go_no_go

====
